---- MODULE Spec2Model ----
(***************************************************************************)
(* Safety-threshold evaluation and severity scoring of the medical         *)
(* research platform: Protocol.check_safety_violation                      *)
(* (services/protocol/models.py), _calculate_severity_score and the        *)
(* detect_safety_violations task (tasks/analysis.py); further down the     *)
(* analysis methods, the schema validators, the analyze_protocol_data      *)
(* task, the audit trail of a DataPoint and the enrollment in a protocol.  *)
(*                                                                         *)
(* Python dicts are modelled in their insertion order: a dict is a         *)
(* sequence of entries with distinct keys.  Numbers are integers;          *)
(* quotients are exact fractions <<n, d>> with d > 0; a severity score is  *)
(* kept in thousandths after round(score, 3).                              *)
(***************************************************************************)
EXTENDS Integers, Sequences, FiniteSets, TLC

VARIABLES
    safety_params,                 \* Protocol.safety_params
    safety_violation_thresholds,   \* Protocol.safety_violation_thresholds
    ret,                           \* what the last operation returned
    analysis_results,              \* the AnalysisResult table
    request,                       \* the analyze_protocol_data invocation
    max_participants,              \* Protocol.max_participants
    participations,                \* the Participation table
    enrollments,                   \* the enroll requests in progress
    datapoint                      \* a DataPoint instance

task_vars == <<analysis_results, request>>
enrollment_vars == <<max_participants, participations, enrollments>>
data_vars == <<datapoint>>

vars == <<safety_params, safety_violation_thresholds, ret,
          analysis_results, request,
          max_participants, participations, enrollments, datapoint>>

(***************************************************************************)
(* Bounds of the model.                                                    *)
(***************************************************************************)
\* longest DataPoint table the detection task is run against
MaxRows == 2

\* the max_participants of the protocol; one user more than that may ask
\* to enroll
Capacity == 2

\* most saves of one DataPoint instance
MaxSaves == 3

(***************************************************************************)
(* The metric vocabulary and the numbers the model draws from.             *)
(***************************************************************************)
Metrics == {"vitamin_d", "energy_level"}

EmptyMap == [k \in {} |-> 0]

VitaminDValues == {-20, 5, 15, 20, 50, 61, 100, 170}
EnergyValues == {0, 3, 7}

ValuesOf(metric) == IF metric = "vitamin_d" THEN VitaminDValues ELSE EnergyValues

\* a data point's data: a sparse mapping metric -> number
DataMaps ==
    { d \in UNION { [S -> VitaminDValues \cup EnergyValues] : S \in SUBSET Metrics } :
        \A k \in DOMAIN d : d[k] \in ValuesOf(k) }

\* threshold specs a protocol may carry for one metric: flat ranges, an
\* inverted range, a degenerate zero range, a negative range, and specs
\* with one key or none
VitaminDSpecs ==
    { [min |-> 20, max |-> 100],
      [min |-> 100, max |-> 20],
      [min |-> 0, max |-> 0],
      [min |-> -10, max |-> -5],
      "min" :> 203,
      "max" :> 10,
      EmptyMap }
EnergySpecs == { [min |-> 1, max |-> 5] }

SpecsOf(metric) == IF metric = "vitamin_d" THEN VitaminDSpecs ELSE EnergySpecs

\* a dict metric -> threshold spec, in insertion order
ThresholdDicts ==
    { <<>> }
    \cup { << [param |-> m, threshold |-> t] >> : m \in Metrics, t \in VitaminDSpecs \cup EnergySpecs }
    \cup { << [param |-> m1, threshold |-> t1], [param |-> m2, threshold |-> t2] >> :
             m1 \in Metrics, m2 \in Metrics,
             t1 \in VitaminDSpecs \cup EnergySpecs, t2 \in VitaminDSpecs \cup EnergySpecs }

WellFormedDict(dict) ==
    /\ \A i \in 1..Len(dict) : dict[i].threshold \in SpecsOf(dict[i].param)
    /\ \A i, j \in 1..Len(dict) : dict[i].param = dict[j].param => i = j

Thresholds == { dict \in ThresholdDicts : WellFormedDict(dict) }

\* safety_params documents of the protocol tests
VALID_SAFETY_PARAMS ==
    [ vitamin_d |-> [min |-> 10, max |-> 100, critical_min |-> 5, critical_max |-> 150],
      energy_level |-> [min |-> 1, max |-> 5] ]

SafetyParamDocs == { EmptyMap, VALID_SAFETY_PARAMS }

\* requirements documents: the one of the protocol tests, and the empty one
VALID_REQUIREMENTS ==
    [ data_points |-> << [name |-> "vitamin_d", type |-> "number", unit |-> "ng/mL"],
                         [name |-> "energy_level", type |-> "number", unit |-> "score"] >>,
      frequency |-> [type |-> "weekly", value |-> 1],
      duration |-> 12 ]

RequirementDocs == { VALID_REQUIREMENTS, EmptyMap }

(***************************************************************************)
(* Protocol.validate_requirements: the required keys of the schema and the *)
(* minimum of duration                                                     *)
(***************************************************************************)
validate_requirements(requirements) ==
    /\ {"data_points", "frequency", "duration"} \subseteq DOMAIN requirements
    /\ {"type", "value"} \subseteq DOMAIN requirements["frequency"]
    /\ requirements["duration"] >= 1

(***************************************************************************)
(* Protocol.check_safety_violation                                         *)
(***************************************************************************)
ViolationMessage == "Safety parameter violation detected"

\* CheckValue with the boundary values counted as violations (<= and >=)
CheckValueInclusive(details, param, threshold, value) ==
    LET below == "min" \in DOMAIN threshold /\ value <= threshold["min"]
        above == "max" \in DOMAIN threshold /\ value >= threshold["max"]
        entry == IF above
                 THEN [param |-> param, type |-> "above_maximum",
                       value |-> value, threshold |-> threshold["max"]]
                 ELSE [param |-> param, type |-> "below_minimum",
                       value |-> value, threshold |-> threshold["min"]]
    IN  IF below \/ above THEN Append(details, entry) ELSE details

\* the two threshold checks on a value that is present: the violation_details
\* dict after them.  Both ifs run; violation_details[param] = {...} of the
\* second replaces the entry of the first under the same key.
CheckValue(details, param, threshold, value) ==
    LET below == "min" \in DOMAIN threshold /\ value < threshold["min"]
        above == "max" \in DOMAIN threshold /\ value > threshold["max"]
        entry == IF above
                 THEN [param |-> param, type |-> "above_maximum",
                       value |-> value, threshold |-> threshold["max"]]
                 ELSE [param |-> param, type |-> "below_minimum",
                       value |-> value, threshold |-> threshold["min"]]
    IN  IF below \/ above THEN Append(details, entry) ELSE details

\* CheckParam reading a missing metric as 0 (data_point.get(param, 0))
CheckParamMissingAsZero(details, param, threshold, data_point) ==
    CheckValue(details, param, threshold,
               IF param \in DOMAIN data_point THEN data_point[param] ELSE 0)

\* the loop body for (param, threshold): if param in data_point
CheckParam(details, param, threshold, data_point) ==
    IF param \in DOMAIN data_point
    THEN CheckValue(details, param, threshold, data_point[param])
    ELSE details

RECURSIVE CheckLoop(_, _, _, _)
CheckLoop(thresholds, i, details, data_point) ==
    IF i > Len(thresholds) THEN details
    ELSE CheckLoop(thresholds, i + 1,
                   CheckParam(details, thresholds[i].param,
                              thresholds[i].threshold, data_point),
                   data_point)

check_safety_violation(thresholds, data_point) ==
    LET violation_details == CheckLoop(thresholds, 1, <<>>, data_point)
        violation_found == violation_details # <<>>
    IN  [ raised |-> FALSE,      \* no statement of the try block raises on numbers
          violation_found |-> violation_found,
          violation_message |-> IF violation_found THEN ViolationMessage ELSE "",
          violation_details |-> violation_details ]

(***************************************************************************)
(* Exact arithmetic for the severity score.  A fraction is <<n, d>> with   *)
(* d > 0; Python's true division of two numbers is exact here up to the    *)
(* final round(score, 3), which no draw of the model brings onto a tie.    *)
(***************************************************************************)
Frac(n, d) == IF d < 0 THEN <<-n, -d>> ELSE <<n, d>>

FracLeq(a, b) == a[1] * b[2] <= b[1] * a[2]

FracMin(a, b) == IF FracLeq(a, b) THEN a ELSE b

FracMax(a, b) == IF FracLeq(a, b) THEN b ELSE a

FracZero == <<0, 1>>
FracOne == <<1, 1>>

\* round(x, 3) of a fraction x >= 0, in thousandths, ties to even
Round3(x) ==
    LET scaled == 1000 * x[1]
        q == scaled \div x[2]
        r == scaled % x[2]
    IN  IF 2 * r > x[2] THEN q + 1
        ELSE IF 2 * r < x[2] THEN q
        ELSE IF q % 2 = 0 THEN q ELSE q + 1

(***************************************************************************)
(* _calculate_severity_score                                               *)
(***************************************************************************)
\* the division of one branch: excess or deficit.  The caller has checked
\* that the threshold is not zero.
Excess(details) == Frac(details.value - details.threshold, details.threshold)
Deficit(details) == Frac(details.threshold - details.value, details.threshold)

\* ScoreEntry without the cap min(1.0, ...)
ScoreEntryUncapped(severity_score, details) ==
    IF details.type = "above_maximum"
    THEN FracMax(severity_score, Excess(details))
    ELSE IF details.type = "below_minimum"
    THEN FracMax(severity_score, Deficit(details))
    ELSE severity_score

\* ScoreEntry that keeps the severity of the entry at hand instead of the
\* maximum so far
ScoreEntryLast(severity_score, details) ==
    IF details.type = "above_maximum"
    THEN FracMax(FracZero, FracMin(FracOne, Excess(details)))
    ELSE IF details.type = "below_minimum"
    THEN FracMax(FracZero, FracMin(FracOne, Deficit(details)))
    ELSE severity_score

\* the loop body for one entry: the running severity_score after it
ScoreEntry(severity_score, details) ==
    IF details.type = "above_maximum"
    THEN FracMax(severity_score, FracMin(FracOne, Excess(details)))
    ELSE IF details.type = "below_minimum"
    THEN FracMax(severity_score, FracMin(FracOne, Deficit(details)))
    ELSE severity_score

\* the entry's division raises ZeroDivisionError
Divides(details) == details.type \in {"above_maximum", "below_minimum"}

RECURSIVE ScoreLoop(_, _, _)
\* the for loop: the running score, or the exception that leaves the loop
ScoreLoop(violation_details, i, severity_score) ==
    IF i > Len(violation_details) THEN [raised |-> FALSE, score |-> severity_score]
    ELSE IF Divides(violation_details[i]) /\ violation_details[i].threshold = 0
    THEN [raised |-> TRUE, score |-> severity_score]
    ELSE ScoreLoop(violation_details, i + 1,
                   ScoreEntry(severity_score, violation_details[i]))

\* an except clause that lets the exception through
ScoreOnErrorReraise(loop) == [raised |-> TRUE, score |-> 0]

\* what the except clause does with an exception of the loop: it returns
\* the maximum severity
ScoreOnError(loop) == [raised |-> FALSE, score |-> 1000]

\* the function's outcome: whether it raised to its caller, and the score
\* it returned, in thousandths
CalculateSeverityScore(violation_details) ==
    LET loop == ScoreLoop(violation_details, 1, FracZero)
    IN  IF loop.raised THEN ScoreOnError(loop)
        ELSE [raised |-> FALSE, score |-> Round3(loop.score)]

(***************************************************************************)
(* Violation reports handed to the scorer directly.                        *)
(***************************************************************************)
ViolationTypes == {"above_maximum", "below_minimum"}

VitaminDEntries ==
    [param : {"vitamin_d"}, type : ViolationTypes,
     value : {-20, 5, 61, 170}, threshold : {-10, 0, 20, 203}]
EnergyEntries ==
    [param : {"energy_level"}, type : ViolationTypes,
     value : {0, 7}, threshold : {1, 5}]

\* reports of at most one entry per metric, in either order
Reports ==
    { <<>> }
    \cup { <<e>> : e \in VitaminDEntries \cup EnergyEntries }
    \cup { <<e1, e2>> : e1 \in VitaminDEntries, e2 \in EnergyEntries }
    \cup { <<e2, e1>> : e1 \in VitaminDEntries, e2 \in EnergyEntries }

(***************************************************************************)
(* detect_safety_violations                                                *)
(***************************************************************************)
\* the slice [:100] of the query
RecentLimit == 100

\* the comparison made strict
RequiresActionStrict(severity_score) == severity_score > 700

\* severity_score >= 0.7, the score in thousandths
RequiresAction(severity_score) == severity_score >= 700

\* DataPoint rows of the protocol.  A table is listed by ascending
\* recorded_at: row i was recorded at time i and has id i.
DATA_POINT_STATUSES == {"pending", "validated"}

TaskData ==
    { [vitamin_d |-> 15, energy_level |-> 3],
      [vitamin_d |-> 170, energy_level |-> 7],
      [vitamin_d |-> 50, energy_level |-> 3],
      "vitamin_d" :> 61,
      "energy_level" :> 0 }

Rows == [status : DATA_POINT_STATUSES, data : TaskData]

Tables == UNION { [1..n -> Rows] : n \in 0..MaxRows }

RECURSIVE RecentData(_, _)
\* filter(status='validated').order_by('-recorded_at'): the validated rows
\* among the first i, latest first
RecentData(table, i) ==
    IF i = 0 THEN <<>>
    ELSE IF table[i].status = "validated"
    THEN <<[id |-> i, recorded_at |-> i, data |-> table[i].data]>>
             \o RecentData(table, i - 1)
    ELSE RecentData(table, i - 1)

Slice(s, n) == SubSeq(s, 1, IF Len(s) < n THEN Len(s) ELSE n)

RECURSIVE DetectLoop(_, _, _, _)
\* the loop over recent_data: the violations list, or the exception of the
\* scorer that leaves the loop
DetectLoop(thresholds, recent_data, i, violations) ==
    IF i > Len(recent_data) THEN [raised |-> FALSE, violations |-> violations]
    ELSE
        LET data_point == recent_data[i]
            checked == check_safety_violation(thresholds, data_point.data)
            scored == CalculateSeverityScore(checked.violation_details)
            violation ==
                [ data_point_id |-> ToString(data_point.id),
                  recorded_at |-> ToString(data_point.recorded_at),
                  message |-> checked.violation_message,
                  details |-> checked.violation_details,
                  severity_score |-> scored.score,
                  requires_action |-> RequiresAction(scored.score) ]
        IN  IF ~checked.violation_found
            THEN DetectLoop(thresholds, recent_data, i + 1, violations)
            ELSE IF scored.raised
            THEN [raised |-> TRUE, violations |-> violations]
            ELSE DetectLoop(thresholds, recent_data, i + 1,
                            Append(violations, violation))

detect_safety_violations(thresholds, table) ==
    DetectLoop(thresholds, Slice(RecentData(table, Len(table)), RecentLimit), 1, <<>>)

(***************************************************************************)
(* Operations                                                              *)
(***************************************************************************)
\* ret between two calls: nothing is being returned
NoCall == [op |-> "none"]

\* the users that may enroll
Users == 1..(Capacity + 1)

\* no task invocation has been made
IdleRequest ==
    [pc |-> "idle", called_directly |-> FALSE, retries |-> 0,
     data_points |-> <<>>, result |-> 0, exc |-> ""]

\* Python's None
None == [none |-> TRUE]

\* no DataPoint has been constructed
NoDataPoint == [pk |-> None]

Init ==
    /\ safety_params = EmptyMap
    /\ safety_violation_thresholds = <<>>
    /\ ret = NoCall
    /\ analysis_results = <<>>
    /\ request = IdleRequest
    /\ max_participants = Capacity
    /\ participations = <<>>
    /\ enrollments = [user \in Users |-> "idle"]
    /\ datapoint = NoDataPoint

\* Protocol.objects.create(...) or a later save() with the two JSON fields
\* set: a field that is not passed keeps its default, the empty dict.  The
\* save validates the requirements only; it raises and stores nothing when
\* they are invalid.  (The audit entry and the timestamps it also writes
\* are read by no operation of this model.)
SaveProtocol(requirements, params, thresholds) ==
    /\ ret = NoCall
    /\ UNCHANGED <<task_vars, enrollment_vars, data_vars>>
    /\ IF validate_requirements(requirements)
       THEN /\ safety_params' = params
            /\ safety_violation_thresholds' = thresholds
            /\ ret' = [op |-> "save", raised |-> FALSE]
       ELSE /\ ret' = [op |-> "save", raised |-> TRUE]
            /\ UNCHANGED <<safety_params, safety_violation_thresholds>>

CheckSafetyViolation(data_point) ==
    /\ ret = NoCall
    /\ UNCHANGED <<task_vars, enrollment_vars, data_vars>>
    /\ ret' = [op |-> "check_safety_violation", data_point |-> data_point]
                @@ check_safety_violation(safety_violation_thresholds, data_point)
    /\ UNCHANGED <<safety_params, safety_violation_thresholds>>

SeverityScore(violation_details) ==
    /\ ret = NoCall
    /\ UNCHANGED <<task_vars, enrollment_vars, data_vars>>
    /\ ret' = [op |-> "_calculate_severity_score",
               violation_details |-> violation_details]
                @@ CalculateSeverityScore(violation_details)
    /\ UNCHANGED <<safety_params, safety_violation_thresholds>>

\* the task run against the DataPoint table of the protocol
DetectSafetyViolations(table) ==
    /\ ret = NoCall
    /\ UNCHANGED <<task_vars, enrollment_vars, data_vars>>
    /\ ret' = [op |-> "detect_safety_violations", table |-> table]
                @@ detect_safety_violations(safety_violation_thresholds, table)
    /\ UNCHANGED <<safety_params, safety_violation_thresholds>>

\* the caller takes the returned value; the next call may begin
Return ==
    /\ ret # NoCall
    /\ UNCHANGED <<task_vars, enrollment_vars, data_vars>>
    /\ ret' = NoCall
    /\ UNCHANGED <<safety_params, safety_violation_thresholds>>

Next ==
    \/ \E requirements \in RequirementDocs, params \in SafetyParamDocs,
          thresholds \in Thresholds :
           SaveProtocol(requirements, params, thresholds)
    \/ \E data_point \in DataMaps : CheckSafetyViolation(data_point)
    \/ \E violation_details \in Reports : SeverityScore(violation_details)
    \/ \E table \in Tables : DetectSafetyViolations(table)
    \/ Return

Spec == Init /\ [][Next]_vars

(***************************************************************************)
(* Claims about Protocol.check_safety_violation                            *)
(***************************************************************************)
Checked == ret.op = "check_safety_violation"

\* the params of a thresholds dict
ParamsOf(dict) == { dict[i].param : i \in 1..Len(dict) }

\* a flat {min, max} spec
IsFlat(threshold) == {"min", "max"} \subseteq DOMAIN threshold

\* the entries of a violation report under one param
EntriesFor(details, param) == { i \in 1..Len(details) : details[i].param = param }

\* every metric shared by the data point and the thresholds is within
\* [min, max], the boundaries included
AllInRange(dict, data_point) ==
    \A i \in 1..Len(dict) :
        dict[i].param \in DOMAIN data_point =>
            /\ dict[i].threshold["min"] <= data_point[dict[i].param]
            /\ data_point[dict[i].param] <= dict[i].threshold["max"]

\* C1: against a flat {min,max} threshold map, a data point whose shared
\* metrics all lie in [min, max] (boundaries included) gets
\* violation_found = False, an empty message and empty violation_details.
C1_InRangeNoViolation ==
    ( /\ Checked
      /\ \A i \in 1..Len(safety_violation_thresholds) :
             IsFlat(safety_violation_thresholds[i].threshold)
      /\ AllInRange(safety_violation_thresholds, ret.data_point) )
    => ( /\ ret.violation_found = FALSE
         /\ ret.violation_message = ""
         /\ ret.violation_details = <<>> )

\* a check of a value on the boundary of its range, with a second shared
\* metric inside its range
C1_Witness ==
    /\ Checked
    /\ safety_violation_thresholds =
           << [param |-> "vitamin_d", threshold |-> [min |-> 20, max |-> 100]],
              [param |-> "energy_level", threshold |-> [min |-> 1, max |-> 5]] >>
    /\ ret.data_point = [vitamin_d |-> 100, energy_level |-> 3]
    /\ ~ret.violation_found

\* C2: for each metric present in both the data point and the thresholds,
\* value < min is recorded as below_minimum with threshold = min, and
\* value > max as above_maximum with threshold = max, with the value.
C2_EachBoundaryRecorded ==
    Checked =>
        \A i \in 1..Len(safety_violation_thresholds) :
            LET param == safety_violation_thresholds[i].param
                threshold == safety_violation_thresholds[i].threshold
                value == ret.data_point[param]
            IN  param \in DOMAIN ret.data_point =>
                  /\ ("min" \in DOMAIN threshold /\ value < threshold["min"]) =>
                        \E j \in EntriesFor(ret.violation_details, param) :
                            /\ ret.violation_details[j].type = "below_minimum"
                            /\ ret.violation_details[j].threshold = threshold["min"]
                            /\ ret.violation_details[j].value = value
                  /\ ("max" \in DOMAIN threshold /\ value > threshold["max"]) =>
                        \E j \in EntriesFor(ret.violation_details, param) :
                            /\ ret.violation_details[j].type = "above_maximum"
                            /\ ret.violation_details[j].threshold = threshold["max"]
                            /\ ret.violation_details[j].value = value

\* C3: a protocol created with safety_params = {metric: {min, max, ...}} and
\* nothing else reports a violation exactly when the submitted value of the
\* metric is below that min or above that max, naming the metric.
C3_SafetyParamsDecide ==
    ( /\ Checked
      /\ safety_params = VALID_SAFETY_PARAMS
      /\ safety_violation_thresholds = <<>> )
    => \A param \in DOMAIN ret.data_point :
          DOMAIN ret.data_point = {param} =>
            LET out == \/ ret.data_point[param] < safety_params[param]["min"]
                       \/ ret.data_point[param] > safety_params[param]["max"]
            IN  /\ ret.violation_found = out
                /\ out => /\ ret.violation_message = ViolationMessage
                          /\ EntriesFor(ret.violation_details, param) # {}

\* C4: the evaluator fails, instead of returning a report, whenever a
\* supplied threshold spec has min >= max.
C4_RejectsInvalidSpec ==
    ( /\ Checked
      /\ \E i \in 1..Len(safety_violation_thresholds) :
             /\ IsFlat(safety_violation_thresholds[i].threshold)
             /\ safety_violation_thresholds[i].threshold["min"]
                    >= safety_violation_thresholds[i].threshold["max"] )
    => ret.raised

\* C5: a metric without a threshold, and a thresholded metric missing from
\* the data point, never appear in the report and never cause an error; a
\* data point without any thresholded metric yields no violation.
C5_UnsharedMetricsIgnored ==
    Checked =>
        /\ ~ret.raised
        /\ \A j \in 1..Len(ret.violation_details) :
               /\ ret.violation_details[j].param \in DOMAIN ret.data_point
               /\ ret.violation_details[j].param \in ParamsOf(safety_violation_thresholds)
        /\ (DOMAIN ret.data_point \cap ParamsOf(safety_violation_thresholds) = {}) =>
               /\ ~ret.violation_found
               /\ ret.violation_details = <<>>

\* a check where the data point has a violating value of a metric without
\* threshold and lacks the only thresholded metric
C5_Witness ==
    /\ Checked
    /\ safety_violation_thresholds =
           << [param |-> "vitamin_d", threshold |-> [min |-> 20, max |-> 100]] >>
    /\ ret.data_point = ("energy_level" :> 0)
    /\ ~ret.violation_found

(***************************************************************************)
(* Claims about _calculate_severity_score and detect_safety_violations     *)
(***************************************************************************)
Scored == ret.op = "_calculate_severity_score"

Detected == ret.op = "detect_safety_violations"

\* the severity of one entry as the specification states it, exactly:
\* clamp((value - threshold)/threshold, 0, 1) above the maximum,
\* clamp((threshold - value)/threshold, 0, 1) below the minimum
PerMetricSeverity(e) ==
    LET raw == IF e.type = "above_maximum"
               THEN Frac(e.value - e.threshold, e.threshold)
               ELSE Frac(e.threshold - e.value, e.threshold)
    IN  IF FracLeq(raw, FracZero) THEN FracZero
        ELSE IF FracLeq(FracOne, raw) THEN FracOne
        ELSE raw

NoZeroThreshold(details) == \A i \in 1..Len(details) : details[i].threshold # 0

MaxOf(S) == CHOOSE x \in S : \A y \in S : y <= x

\* the largest per-metric severity of a report, to 3 decimals, in thousandths
MaxSeverity(details) ==
    MaxOf({0} \cup { Round3(PerMetricSeverity(details[i])) : i \in 1..Len(details) })

\* a report without its i-th entry
Without(details, i) == SubSeq(details, 1, i - 1) \o SubSeq(details, i + 1, Len(details))

Reverse(details) == [i \in 1..Len(details) |-> details[Len(details) + 1 - i]]

\* C6: the score is in [0,1] for every report, and a metric's severity is
\* the clamped quotient, also for negative thresholds and far values.
C6_ScoreInUnitInterval ==
    /\ Scored =>
          /\ ~ret.raised
          /\ ret.score \in 0..1000
          /\ (Len(ret.violation_details) = 1 /\ NoZeroThreshold(ret.violation_details)) =>
                 ret.score = Round3(PerMetricSeverity(ret.violation_details[1]))
    /\ (Detected /\ ~ret.raised) =>
          \A k \in 1..Len(ret.violations) : ret.violations[k].severity_score \in 0..1000

\* a report with a negative threshold and with a value far beyond its threshold
C6_Witness ==
    /\ Scored
    /\ ret.violation_details =
           << [param |-> "vitamin_d", type |-> "below_minimum", value |-> -20, threshold |-> -10],
              [param |-> "energy_level", type |-> "above_maximum", value |-> 7, threshold |-> 1] >>
    /\ ret.score = 1000

\* C7: the score of a report is the maximum of its per-metric severities;
\* a report never scores below the report without one of its entries, and
\* the order of the entries does not matter.
C7_ScoreIsMaximum ==
    Scored =>
        /\ NoZeroThreshold(ret.violation_details) =>
               ret.score = MaxSeverity(ret.violation_details)
        /\ \A i \in 1..Len(ret.violation_details) :
               ret.score >= CalculateSeverityScore(Without(ret.violation_details, i)).score
        /\ ret.score = CalculateSeverityScore(Reverse(ret.violation_details)).score

\* a report whose first entry is the more severe one (0.75 before 0.4)
C7_Witness ==
    /\ Scored
    /\ ret.violation_details =
           << [param |-> "vitamin_d", type |-> "below_minimum", value |-> 5, threshold |-> 20],
              [param |-> "energy_level", type |-> "above_maximum", value |-> 7, threshold |-> 5] >>
    /\ ret.score = 750

SevenTenths == <<7, 10>>

\* C9, as stated: requires_action iff the maximum of the clamped per-metric
\* severities, before any rounding, is >= 0.7.
C9_ActionIffUnroundedSeverity ==
    (Detected /\ ~ret.raised) =>
        \A k \in 1..Len(ret.violations) :
            NoZeroThreshold(ret.violations[k].details) =>
                ( ret.violations[k].requires_action
                  <=> \E i \in 1..Len(ret.violations[k].details) :
                         FracLeq(SevenTenths, PerMetricSeverity(ret.violations[k].details[i])) )

\* C9, amended: requires_action iff the severity_score of the entry, which
\* is the maximum of the clamped per-metric severities rounded to 3
\* decimals (1.0 when a threshold is 0), is >= 0.7.
C9_ActionIffRoundedScore ==
    (Detected /\ ~ret.raised) =>
        \A k \in 1..Len(ret.violations) :
            LET v == ret.violations[k]
            IN  /\ v.requires_action <=> v.severity_score >= 700
                /\ NoZeroThreshold(v.details) =>
                       (v.requires_action <=> MaxSeverity(v.details) >= 700)
                /\ ~NoZeroThreshold(v.details) => v.requires_action

\* an entry whose unrounded severity 142/203 = 0.6995... is reported as 0.7
C9_Witness ==
    /\ Detected
    /\ ~ret.raised
    /\ \E k \in 1..Len(ret.violations) :
           /\ ret.violations[k].details =
                  << [param |-> "vitamin_d", type |-> "below_minimum",
                      value |-> 61, threshold |-> 203] >>
           /\ ret.violations[k].severity_score = 700
           /\ ret.violations[k].requires_action

\* the thresholds of the task tests' protocol
MockThresholds ==
    << [param |-> "vitamin_d", threshold |-> [min |-> 20, max |-> 100]],
       [param |-> "energy_level", threshold |-> [min |-> 1, max |-> 5]] >>

\* C10: for a validated data point with vitamin_d = 15 against min 20,
\* max 100 the task returns an entry with the data point's id,
\* details[vitamin_d].type = below_minimum, a severity_score and
\* requires_action = True.
C10_BelowMinimumRequiresAction ==
    (Detected /\ safety_violation_thresholds = MockThresholds) =>
        \A i \in 1..Len(ret.table) :
            ( /\ ret.table[i].status = "validated"
              /\ "vitamin_d" \in DOMAIN ret.table[i].data
              /\ ret.table[i].data["vitamin_d"] = 15 )
            => /\ ~ret.raised
               /\ \E k \in 1..Len(ret.violations) :
                      LET v == ret.violations[k]
                      IN  /\ v.data_point_id = ToString(i)
                          /\ \E j \in EntriesFor(v.details, "vitamin_d") :
                                 v.details[j].type = "below_minimum"
                          /\ v.severity_score \in 0..1000
                          /\ v.requires_action = TRUE


(***************************************************************************)
(* AnalysisResult (services/analysis/models.py): the data points handed    *)
(* to compute_statistics and detect_patterns.                              *)
(*                                                                         *)
(* A data point has its recorded_at column (the time of the observation,   *)
(* in hours from an origin) and its JSON data dict.  The data dict holds   *)
(* the reading under "value", its unit, possibly a second reading "dose",  *)
(* and possibly a copy of the timestamp under "recorded_at".  All the      *)
(* data points of one call have the same keys, written in ColumnOrder,     *)
(* and distinct timestamps.                                                *)
(***************************************************************************)
\* the fewest rows on which detect_patterns looks for seasonality; the
\* frames below have up to that many rows
MinSeasonalityPoints == 4

ColumnOrder == <<"value", "unit", "dose", "recorded_at">>

\* the keys whose values are numbers
NumericKeys == {"value", "dose"}

ValueReadings == {1, 2, 3}

\* the second reading: none given, given on every other observation, or
\* given in the second half of the observations
DoseReadings(n) ==
    { [i \in 1..n |-> 0], [i \in 1..n |-> i % 2],
      [i \in 1..n |-> IF 2 * i > n THEN 1 ELSE 0] }

KeySets ==
    { {"unit"},
      {"value", "unit"},
      {"value", "unit", "recorded_at"},
      {"value", "unit", "dose"},
      {"value", "unit", "dose", "recorded_at"} }

\* one observation a day in the order of the list, the same in reverse
\* order, and one observation every 36 hours
Schedules(n) ==
    { [i \in 1..n |-> 24 * (i - 1)],
      [i \in 1..n |-> 24 * (n - i)],
      [i \in 1..n |-> 36 * (i - 1)] }

DataPointsOf(n, keys) ==
    { [i \in 1..n |->
          [recorded_at |-> schedule[i],
           data |-> [k \in keys |->
                        CASE k = "value" -> value[i]
                          [] k = "dose" -> dose[i]
                          [] k = "unit" -> "mg/dL"
                          [] k = "recorded_at" -> schedule[i]]]] :
      schedule \in Schedules(n),
      value \in IF "value" \in keys THEN [1..n -> ValueReadings] ELSE {<<>>},
      dose \in IF "dose" \in keys THEN DoseReadings(n) ELSE {<<>>} }

DataPointLists ==
    UNION { DataPointsOf(n, keys) : n \in 0..MinSeasonalityPoints, keys \in KeySets }

\* the seasonal data of the tests: 60 daily data points whose value is
\* 100 + 10 * sin(2 * pi * i / 7), here to the nearest integer, and whose
\* data dict holds the value and the unit
WeeklyCycle == <<100, 108, 110, 104, 96, 90, 92>>

SeasonalData ==
    [i \in 1..60 |->
        [recorded_at |-> 24 * (i - 1),
         data |-> [k \in {"value", "unit"} |->
                      IF k = "value" THEN WeeklyCycle[((i - 1) % 7) + 1] ELSE "mg/dL"]]]

(***************************************************************************)
(* pandas and numpy on small exact data.  A float that is not a number is  *)
(* NaN; a square root is kept as the fraction under the root.              *)
(***************************************************************************)
NaN == [nan |-> TRUE]

\* pd.DataFrame([dp.data for dp in data_points])
DataFrame(data_points) == [i \in 1..Len(data_points) |-> data_points[i].data]

Columns(df) == UNION { DOMAIN df[i] : i \in 1..Len(df) }

InColumns(df, col) == col \in Columns(df)

\* df.select_dtypes(include=[np.number]).columns, in column order
NumericCols(df) ==
    SelectSeq(ColumnOrder, LAMBDA col : InColumns(df, col) /\ col \in NumericKeys)

\* df[col]
Column(df, col) == [i \in 1..Len(df) |-> df[i][col]]

RECURSIVE SeqSum(_)
SeqSum(s) == IF s = <<>> THEN 0 ELSE Head(s) + SeqSum(Tail(s))

Products(x, y) == [i \in 1..Len(x) |-> x[i] * y[i]]

\* n * sum(x*y) - sum(x) * sum(y): n^2 times the covariance of x and y
CrossSum(x, y) == Len(x) * SeqSum(Products(x, y)) - SeqSum(x) * SeqSum(y)

\* the values of s in ascending order
SortValues(s) ==
    [k \in 1..Len(s) |->
        CHOOSE v \in { s[i] : i \in 1..Len(s) } :
            /\ Cardinality({ i \in 1..Len(s) : s[i] < v }) < k
            /\ k <= Cardinality({ i \in 1..Len(s) : s[i] <= v })]

Mean(s) == Frac(SeqSum(s), Len(s))

\* Series.quantile(quarter / 4), linear interpolation between order
\* statistics
Quantile(s, quarter) ==
    LET sorted == SortValues(s)
        h == (Len(s) - 1) * quarter
        lo == h \div 4
        rem == h % 4
    IN  IF rem = 0 THEN Frac(sorted[lo + 1], 1)
        ELSE Frac(4 * sorted[lo + 1] + rem * (sorted[lo + 2] - sorted[lo + 1]), 4)

Median(s) ==
    LET sorted == SortValues(s)
        n == Len(s)
    IN  IF n % 2 = 1 THEN Frac(sorted[(n + 1) \div 2], 1)
        ELSE Frac(sorted[n \div 2] + sorted[n \div 2 + 1], 2)

\* the sample variance, sum((x - mean)^2) / (n - 1), for n >= 2
Variance(s) == Frac(CrossSum(s, s), Len(s) * (Len(s) - 1))

\* Series.std(): the sample standard deviation; of a single value it is
\* 0/0, NaN
StdDev(s) == IF Len(s) < 2 THEN NaN ELSE [sqrt |-> Variance(s)]

\* stats.sem(s)^2 = variance / n
SemSquared(s) == Frac(CrossSum(s, s), Len(s) * Len(s) * (Len(s) - 1))

\* stats.t.interval(0.95, df=n-1, loc=mean, scale=sem): loc -/+ t * scale
\* with t the 0.975 quantile of Student's t with df degrees of freedom;
\* (NaN, NaN) when the scale is NaN or not positive
TInterval(s) ==
    IF Len(s) < 2 \/ CrossSum(s, s) = 0
    THEN [lower |-> NaN, upper |-> NaN]
    ELSE LET bound(side) == [loc |-> Mean(s), side |-> side,
                             df |-> Len(s) - 1, scale_sq |-> SemSquared(s)]
         IN  [lower |-> bound("minus"), upper |-> bound("plus")]

Sign(k) == IF k > 0 THEN 1 ELSE IF k < 0 THEN -1 ELSE 0

\* Pearson's r of two columns as its sign and its square; NaN with fewer
\* than two rows or a constant column
Pearson(x, y) ==
    IF Len(x) < 2 \/ CrossSum(x, x) = 0 \/ CrossSum(y, y) = 0 THEN NaN
    ELSE [sign |-> Sign(CrossSum(x, y)),
          sq |-> <<CrossSum(x, y) * CrossSum(x, y), CrossSum(x, x) * CrossSum(y, y)>>]

\* twice the average rank of each value (ties share their average rank)
Ranks(s) ==
    [i \in 1..Len(s) |->
        2 * Cardinality({ j \in 1..Len(s) : s[j] < s[i] })
          + Cardinality({ j \in 1..Len(s) : s[j] = s[i] }) + 1]

Spearman(x, y) == Pearson(Ranks(x), Ranks(y))

\* df[numeric_cols].corr(method=...).to_dict()
CorrMatrix(df, numeric_cols, method) ==
    [pair \in { <<numeric_cols[i], numeric_cols[j]>> :
                    i \in 1..Len(numeric_cols), j \in 1..Len(numeric_cols) } |->
        IF method = "pearson"
        THEN Pearson(Column(df, pair[1]), Column(df, pair[2]))
        ELSE Spearman(Column(df, pair[1]), Column(df, pair[2]))]

MinOf(S) == CHOOSE x \in S : \A y \in S : x <= y

\* Timestamp.isoformat(): the date and the time of day
IsoFormat(hours) == [day |-> hours \div 24, hour |-> hours % 24]

\* Timedelta.days: the whole days of a difference
Days(hours) == hours \div 24

(***************************************************************************)
(* AnalysisResult.compute_statistics                                       *)
(***************************************************************************)
ColStats(s) ==
    [mean |-> Mean(s),
     median |-> Median(s),
     std_dev |-> StdDev(s),
     quartiles |-> [q1 |-> Quantile(s, 1), q2 |-> Quantile(s, 2), q3 |-> Quantile(s, 3)],
     range |-> [min |-> MinOf({ s[i] : i \in 1..Len(s) }),
                max |-> MaxOf({ s[i] : i \in 1..Len(s) })],
     confidence_interval_95 |-> TInterval(s)]

MetricsSummary(df) ==
    LET numeric_cols == NumericCols(df)
    IN  [i \in 1..Len(numeric_cols) |->
            [metric |-> numeric_cols[i], stats |-> ColStats(Column(df, numeric_cols[i]))]]

Correlations(df) ==
    IF Len(NumericCols(df)) > 1
    THEN [correlations |->
             [pearson |-> CorrMatrix(df, NumericCols(df), "pearson"),
              spearman |-> CorrMatrix(df, NumericCols(df), "spearman")]]
    ELSE EmptyMap

\* the timestamps are read from the column "recorded_at" of the frame,
\* that is from the data dicts
TimeMetrics(data_points) ==
    LET df == DataFrame(data_points)
        times == { df[i]["recorded_at"] : i \in 1..Len(df) }
    IN  IF InColumns(df, "recorded_at")
        THEN [time_metrics |->
                 [start_date |-> IsoFormat(MinOf(times)),
                  end_date |-> IsoFormat(MaxOf(times)),
                  duration_days |-> Days(MaxOf(times) - MinOf(times))]]
        ELSE EmptyMap

StatisticsOfNothingPadded(data_points) ==
    [raised |-> FALSE, summary |-> [sample_size |-> 0, metrics |-> <<>>]]

\* with no data points the method raises
StatisticsOfNothing(data_points) == [raised |-> TRUE]

compute_statistics(data_points) ==
    IF Len(data_points) = 0 THEN StatisticsOfNothing(data_points)
    ELSE LET df == DataFrame(data_points)
         IN  [raised |-> FALSE,
              summary |-> [sample_size |-> Len(df), metrics |-> MetricsSummary(df)]
                              @@ Correlations(df) @@ TimeMetrics(data_points)]

(***************************************************************************)
(* AnalysisResult.detect_patterns                                          *)
(*                                                                         *)
(* A confidence is NaN, or [sqrt |-> f], the root of the fraction f (the   *)
(* absolute value of a correlation), or [max_sq |-> m, real |-> c,         *)
(* pair_sq |-> p], the greatest magnitude sqrt(m) over the sum of the      *)
(* magnitudes c + 2 * sqrt(p) of a four-point spectrum.                    *)
(***************************************************************************)
CONFIDENCE_LEVELS == [high |-> <<19, 20>>, medium |-> <<4, 5>>, low |-> <<3, 5>>]

ConfidenceThresholds ==
    { FracZero, CONFIDENCE_LEVELS.low, CONFIDENCE_LEVELS.medium,
      CONFIDENCE_LEVELS.high, FracOne }

\* sqrt(a) >= b for fractions a >= 0 and b
SqrtGeq(a, b) == b[1] <= 0 \/ a[1] * b[2] * b[2] >= b[1] * b[1] * a[2]

\* sqrt(a) <= b for fractions a >= 0 and b
SqrtLeq(a, b) == b[1] >= 0 /\ a[1] * b[2] * b[2] <= b[1] * b[1] * a[2]

\* sqrt(m) / (c + 2 * sqrt(p)) >= t, where m is c * c or p: with m = c * c
\* it is c * (1 - t) >= 2 * t * sqrt(p), with m = p it is
\* sqrt(p) * (1 - 2 * t) >= t * c
SpectrumGeq(conf, t) ==
    LET one == t[2] - t[1]
        two == t[2] - 2 * t[1]
    IN  IF conf.max_sq = conf.real * conf.real
        THEN IF t[1] <= 0 THEN one >= 0 \/ conf.pair_sq = 0
             ELSE one >= 0 /\ conf.real * conf.real * one * one
                                  >= 4 * t[1] * t[1] * conf.pair_sq
        ELSE IF t[1] <= 0 THEN two >= 0
             ELSE two >= 0 /\ conf.pair_sq * two * two
                                  >= t[1] * t[1] * conf.real * conf.real

\* sqrt(m) / (c + 2 * sqrt(p)) <= t
SpectrumLeq(conf, t) ==
    LET one == t[2] - t[1]
        two == t[2] - 2 * t[1]
    IN  IF conf.max_sq = conf.real * conf.real
        THEN IF one < 0 THEN FALSE
             ELSE t[1] >= 0 /\ conf.real * conf.real * one * one
                                  <= 4 * t[1] * t[1] * conf.pair_sq
        ELSE IF two < 0 THEN t[1] >= 0
             ELSE t[1] >= 0 /\ conf.pair_sq * two * two
                                  <= t[1] * t[1] * conf.real * conf.real

\* confidence >= threshold as floats compare: never with NaN
ConfidenceGeq(confidence, threshold) ==
    IF confidence = NaN THEN FALSE
    ELSE IF "sqrt" \in DOMAIN confidence THEN SqrtGeq(confidence.sqrt, threshold)
    ELSE SpectrumGeq(confidence, threshold)

ConfidenceLeq(confidence, threshold) ==
    IF confidence = NaN THEN FALSE
    ELSE IF "sqrt" \in DOMAIN confidence THEN SqrtLeq(confidence.sqrt, threshold)
    ELSE SpectrumLeq(confidence, threshold)

\* abs() of a correlation
Abs(correlation) == IF correlation = NaN THEN NaN ELSE [sqrt |-> correlation.sq]

\* df.sort_values('recorded_at')
SortByTime(df) ==
    [k \in 1..Len(df) |->
        df[CHOOSE i \in 1..Len(df) :
               Cardinality({ j \in 1..Len(df) :
                               df[j]["recorded_at"] < df[i]["recorded_at"] }) = k - 1]]

\* range(len(df))
IndexRange(n) == [i \in 1..n |-> i - 1]

\* np.polyfit(x, y, 1): the least-squares slope and intercept
PolyFit(x, y) ==
    [slope |-> Frac(CrossSum(x, y), CrossSum(x, x)),
     intercept |-> Frac(SeqSum(y) * SeqSum(Products(x, x))
                            - SeqSum(x) * SeqSum(Products(x, y)),
                        CrossSum(x, x))]

\* the trend of one column: reported when |corrcoef| >= threshold
TrendPatterns(df, col, confidence_threshold) ==
    LET y == Column(df, col)
        x == IndexRange(Len(df))
        trend_confidence == Abs(Pearson(x, y))
        trend == PolyFit(x, y)
    IN  IF ConfidenceGeq(trend_confidence, confidence_threshold)
        THEN << [type |-> "trend", metric |-> col,
                 direction |-> IF trend.slope[1] > 0 THEN "increasing"
                               ELSE "decreasing",
                 confidence |-> trend_confidence,
                 details |-> trend] >>
        ELSE <<>>

\* np.fft.fftfreq(n): bin i of n, as a fraction of the sampling rate
FftFreq(n) ==
    [i \in 1..n |-> IF i - 1 <= (n - 1) \div 2 THEN <<i - 1, n>> ELSE <<i - 1 - n, n>>]

\* the squares of np.abs(np.fft.fft(y)) for four points: the bins are
\* y0+y1+y2+y3, (y0-y2) - i(y1-y3), y0-y1+y2-y3, (y0-y2) + i(y1-y3)
MagnitudeSq(y) ==
    LET total == y[1] + y[2] + y[3] + y[4]
        re == y[1] - y[3]
        im == y[2] - y[4]
        alternating == y[1] - y[2] + y[3] - y[4]
    IN  << total * total, re * re + im * im, alternating * alternating,
           re * re + im * im >>

\* np.argmax(s): the first position, from 0, of the greatest value
ArgMax(s) ==
    CHOOSE i \in 0..(Len(s) - 1) :
        /\ \A j \in 1..Len(s) : s[j] <= s[i + 1]
        /\ \A j \in 1..i : s[j] < s[i + 1]

\* frequencies[np.argmax(magnitude[1:])]: the position found in the
\* spectrum without its first bin is used on all the frequencies
PeakFreq(frequencies, magnitude_sq) == frequencies[ArgMax(Tail(magnitude_sq)) + 1]

AbsInt(k) == IF k < 0 THEN -k ELSE k

\* max(magnitude[1:]) / sum(magnitude[1:])
SpectrumConfidence(y) ==
    LET magnitude_sq == MagnitudeSq(y)
    IN  [max_sq |-> MaxOf({ magnitude_sq[i] : i \in 2..4 }),
         real |-> AbsInt(y[1] - y[2] + y[3] - y[4]),
         pair_sq |-> magnitude_sq[2]]

\* the seasonality of one column: looked for on four rows or more and
\* reported when the frequency picked is positive
SeasonalityPatterns(df, col) ==
    IF Len(df) >= MinSeasonalityPoints
    THEN LET y == Column(df, col)
             peak_freq == PeakFreq(FftFreq(Len(df)), MagnitudeSq(y))
         IN  IF peak_freq[1] > 0
             THEN << [type |-> "seasonality", metric |-> col,
                      confidence |-> SpectrumConfidence(y),
                      details |-> [period_days |-> Frac(peak_freq[2], peak_freq[1])]] >>
             ELSE <<>>
    ELSE <<>>

RECURSIVE TimeSeriesLoop(_, _, _, _)
TimeSeriesLoop(df, numeric_cols, i, confidence_threshold) ==
    IF i > Len(numeric_cols) THEN <<>>
    ELSE TrendPatterns(df, numeric_cols[i], confidence_threshold)
           \o SeasonalityPatterns(df, numeric_cols[i])
           \o TimeSeriesLoop(df, numeric_cols, i + 1, confidence_threshold)

\* the time series patterns are looked for when the frame has a column
\* "recorded_at", on the rows in the order of that column
TimeSeriesPatterns(df, confidence_threshold) ==
    IF InColumns(df, "recorded_at")
    THEN TimeSeriesLoop(SortByTime(df), NumericCols(df), 1, confidence_threshold)
    ELSE <<>>

CorrelationPattern(df, a, b, confidence_threshold) ==
    LET correlation == Pearson(Column(df, a), Column(df, b))
    IN  IF ConfidenceGeq(Abs(correlation), confidence_threshold)
        THEN << [type |-> "correlation", metrics |-> <<a, b>>,
                 correlation |-> correlation,
                 confidence |-> Abs(correlation),
                 direction |-> IF correlation.sign > 0 THEN "positive"
                               ELSE "negative"] >>
        ELSE <<>>

\* the pairs (i, j) with i < j, in the order of the two loops
RECURSIVE CorrelationLoop(_, _, _, _, _)
CorrelationLoop(df, numeric_cols, i, j, confidence_threshold) ==
    IF i > Len(numeric_cols) THEN <<>>
    ELSE IF j > Len(numeric_cols)
         THEN CorrelationLoop(df, numeric_cols, i + 1, i + 2, confidence_threshold)
         ELSE CorrelationPattern(df, numeric_cols[i], numeric_cols[j],
                                 confidence_threshold)
                \o CorrelationLoop(df, numeric_cols, i, j + 1, confidence_threshold)

CorrelationPatterns(df, confidence_threshold) ==
    IF Len(NumericCols(df)) > 1
    THEN CorrelationLoop(df, NumericCols(df), 1, 2, confidence_threshold)
    ELSE <<>>

FilterPatternsKeepAll(patterns, confidence_threshold) == patterns

\* return [p for p in patterns if p['confidence'] >= confidence_threshold]
FilterPatterns(patterns, confidence_threshold) ==
    SelectSeq(patterns, LAMBDA p : ConfidenceGeq(p.confidence, confidence_threshold))

PatternsOfNothingRaises(data_points) == [raised |-> TRUE]

\* with no data points the method returns no pattern
PatternsOfNothing(data_points) == [raised |-> FALSE, patterns |-> <<>>]

detect_patterns(data_points, confidence_threshold) ==
    IF Len(data_points) = 0 THEN PatternsOfNothing(data_points)
    ELSE LET df == DataFrame(data_points)
         IN  [raised |-> FALSE,
              patterns |->
                  FilterPatterns(TimeSeriesPatterns(df, confidence_threshold)
                                   \o CorrelationPatterns(df, confidence_threshold),
                                 confidence_threshold)]

(***************************************************************************)
(* AnalysisResult.generate_visualizations                                  *)
(***************************************************************************)
TimeSeriesPlot(metric) ==
    [type |-> "time_series", metric |-> metric,
     config |-> [title |-> <<metric, " Over Time">>,
                 x_axis |-> [label |-> "Date", type |-> "datetime"],
                 y_axis |-> [label |-> metric, type |-> "numeric"],
                 include_trend |-> TRUE,
                 confidence_interval |-> TRUE]]

TimeSeriesPlots(statistical_summary) ==
    IF "time_metrics" \in DOMAIN statistical_summary
    THEN [i \in 1..Len(statistical_summary.metrics) |->
             TimeSeriesPlot(statistical_summary.metrics[i].metric)]
    ELSE <<>>

DistributionPlots(statistical_summary) ==
    [i \in 1..Len(statistical_summary.metrics) |->
        [type |-> "distribution", metric |-> statistical_summary.metrics[i].metric,
         config |-> [title |-> <<statistical_summary.metrics[i].metric, " Distribution">>,
                     show_quartiles |-> TRUE,
                     include_stats |-> TRUE,
                     stats_summary |-> statistical_summary.metrics[i].stats]]]

Heatmap(statistical_summary) ==
    IF "correlations" \in DOMAIN statistical_summary
    THEN << [type |-> "heatmap",
             data |-> statistical_summary.correlations.pearson,
             config |-> [title |-> "Correlation Heatmap", colorscale |-> "RdBu",
                         symmetric |-> TRUE]] >>
    ELSE <<>>

PatternPlotAlways(pattern) ==
    << [type |-> "trend_overlay", metric |-> pattern.type,
        config |-> [confidence |-> pattern.confidence, trend_line |-> TRUE]] >>

\* a trend gets an overlay, a correlation a scatter plot, any other
\* pattern nothing
PatternPlot(pattern) ==
    IF pattern.type = "trend"
    THEN << [type |-> "trend_overlay", metric |-> pattern.metric,
             config |-> [direction |-> pattern.direction,
                         confidence |-> pattern.confidence,
                         trend_line |-> TRUE]] >>
    ELSE IF pattern.type = "correlation"
    THEN << [type |-> "scatter", metrics |-> pattern.metrics,
             config |-> [title |-> <<"Correlation: ", pattern.metrics[1], " vs ",
                                     pattern.metrics[2]>>,
                         trend_line |-> TRUE,
                         correlation_stats |-> [value |-> pattern.correlation,
                                                confidence |-> pattern.confidence]]] >>
    ELSE <<>>

RECURSIVE PatternPlots(_, _)
PatternPlots(patterns, i) ==
    IF i > Len(patterns) THEN <<>>
    ELSE PatternPlot(patterns[i]) \o PatternPlots(patterns, i + 1)

generate_visualizations(statistical_summary, patterns) ==
    [raised |-> FALSE,
     visualizations |-> TimeSeriesPlots(statistical_summary)
                          \o DistributionPlots(statistical_summary)
                          \o Heatmap(statistical_summary)
                          \o PatternPlots(patterns, 1)]

(***************************************************************************)
(* validate_safety_parameters (services/protocol/schemas.py)               *)
(*                                                                         *)
(* A safety parameters document has its markers, a dict kept as the        *)
(* sequence of its entries, each with a critical and an alert range, and   *)
(* its intervention triggers.                                              *)
(***************************************************************************)
MarkerNames == {"vitamin_d", "crp"}

CriticalBounds == { [min |-> 10, max |-> 100], [min |-> 20, max |-> 80] }

\* alert ranges within and outside the critical ranges, two of them with
\* min >= max
AlertBounds ==
    { [min |-> 15, max |-> 90], [min |-> 5, max |-> 90],
      [min |-> 15, max |-> 110], [min |-> 10, max |-> 100],
      [min |-> 90, max |-> 15], [min |-> 50, max |-> 50] }

\* a range with its unit, and the same without
Ranges(bounds) ==
    { b @@ [unit |-> "ng/mL"] : b \in bounds } \cup bounds

MarkerParams ==
    { [critical_ranges |-> c, alert_ranges |-> a] :
          c \in Ranges(CriticalBounds), a \in Ranges(AlertBounds) }
      \cup { [critical_ranges |-> c] : c \in Ranges(CriticalBounds) }

MarkerDicts ==
    { <<>> }
      \cup { << [marker |-> m, params |-> p] >> : m \in MarkerNames, p \in MarkerParams }
      \cup { << [marker |-> "vitamin_d", params |-> p],
                [marker |-> "crp", params |-> q] >> :
                 p \in MarkerParams,
                 q \in { r \in MarkerParams :
                           /\ "unit" \in DOMAIN r.critical_ranges
                           /\ "alert_ranges" \in DOMAIN r
                           /\ "unit" \in DOMAIN r.alert_ranges } }

SafetyParameterDocs ==
    { [markers |-> markers, intervention_triggers |-> <<>>] : markers \in MarkerDicts }
      \cup { [markers |-> markers] : markers \in MarkerDicts }

\* MEASUREMENT_RANGE_SCHEMA: min, max and unit are required
ValidRange(range) == {"min", "max", "unit"} \subseteq DOMAIN range

\* SAFETY_PARAMETERS_SCHEMA: markers and intervention_triggers are
\* required, there is a marker at least, and every marker has its two
\* ranges
ValidSafetyDocument(document) ==
    /\ {"markers", "intervention_triggers"} \subseteq DOMAIN document
    /\ Len(document.markers) >= 1
    /\ \A i \in 1..Len(document.markers) :
           LET params == document.markers[i].params
           IN  /\ {"critical_ranges", "alert_ranges"} \subseteq DOMAIN params
               /\ ValidRange(params.critical_ranges)
               /\ ValidRange(params.alert_ranges)

SchemaError ==
    [raised |-> TRUE,
     message |-> "Safety parameters validation failed",
     details |-> [fields |-> [schema_error |-> "e.message", schema_path |-> "e.path"]]]

OutsideCriticalMinOnly(critical, alert) == critical.min > alert.min

\* critical.get('min') > alert.get('min') or critical.get('max') < alert.get('max')
OutsideCritical(critical, alert) ==
    critical.min > alert.min \/ critical.max < alert.max

ThresholdError(marker) ==
    [raised |-> TRUE,
     message |-> <<"Invalid threshold ranges for marker: ", marker>>,
     details |-> [fields |-> [field \in {marker} |->
                                 "Alert ranges must be within critical ranges"]]]

\* the loop over the markers: the first marker whose alert range is not
\* within its critical range raises
RECURSIVE MarkerLoop(_, _)
MarkerLoop(markers, i) ==
    IF i > Len(markers) THEN [raised |-> FALSE, value |-> TRUE]
    ELSE IF OutsideCritical(markers[i].params.critical_ranges,
                            markers[i].params.alert_ranges)
         THEN ThresholdError(markers[i].marker)
         ELSE MarkerLoop(markers, i + 1)

validate_safety_parameters(document) ==
    IF ValidSafetyDocument(document)
    THEN MarkerLoop(document.markers, 1)
    ELSE SchemaError

(***************************************************************************)
(* validate_protocol_requirements (core/validators.py)                     *)
(*                                                                         *)
(* validation_errors is kept as the sequence of its entries, each with     *)
(* the path of its key: <<field>>, or <<"safety_thresholds", marker>>.     *)
(***************************************************************************)
ALLOWED_FREQUENCIES == {"daily", "weekly", "monthly"}
MIN_PROTOCOL_WEEKS == 1
MAX_PROTOCOL_WEEKS == 52

\* the units that match MEASUREMENT_UNIT_PATTERN
WellFormedUnits == {"mg/dL", "ng/mL"}

FlatThresholds ==
    { [min |-> 20, max |-> 100], [min |-> 100, max |-> 20],
      [min |-> 50, max |-> 50], [min |-> 20] }

SafetyThresholdDicts ==
    { << [marker |-> m, threshold |-> t] >> : m \in MarkerNames, t \in FlatThresholds }
      \cup { << [marker |-> "vitamin_d", threshold |-> t],
                [marker |-> "crp", threshold |-> u] >> :
                 t \in FlatThresholds, u \in FlatThresholds }

RequiredFields == <<"title", "duration", "data_collection_frequency">>

\* requirements documents: the required fields, one of them possibly
\* missing, and possibly measurement units and safety thresholds
ProtocolRequirementDocs ==
    LET required == { [title |-> "Vitamin D Study", duration |-> d,
                       data_collection_frequency |-> f] :
                          d \in {0, 12, 53}, f \in {"daily", "hourly"} }
        units == { EmptyMap } \cup { [measurement_units |-> u] :
                                        u \in { <<"mg/dL">>, <<"mg/dL", "mg per dL">> } }
        thresholds == { EmptyMap } \cup { [safety_thresholds |-> t] :
                                             t \in SafetyThresholdDicts }
    IN  { r @@ u @@ t : r \in required, u \in units, t \in thresholds }
          \cup { [duration |-> 12, data_collection_frequency |-> "daily"],
                 [title |-> "Vitamin D Study"] }

MissingFields(requirements) ==
    SelectSeq(RequiredFields, LAMBDA field : field \notin DOMAIN requirements)

FrequencyErrors(requirements) ==
    IF requirements.data_collection_frequency \notin ALLOWED_FREQUENCIES
    THEN << [path |-> <<"data_collection_frequency">>, message |-> "Invalid frequency"] >>
    ELSE <<>>

DurationErrors(requirements) ==
    IF ~(MIN_PROTOCOL_WEEKS <= requirements.duration
            /\ requirements.duration <= MAX_PROTOCOL_WEEKS)
    THEN << [path |-> <<"duration">>, message |-> "Duration out of range"] >>
    ELSE <<>>

\* one entry, the list of the units that do not match the pattern
UnitErrors(requirements) ==
    IF "measurement_units" \in DOMAIN requirements
    THEN LET invalid == SelectSeq(requirements.measurement_units,
                                  LAMBDA unit : unit \notin WellFormedUnits)
         IN  IF invalid # <<>>
             THEN << [path |-> <<"measurement_units">>, message |-> invalid] >>
             ELSE <<>>
    ELSE <<>>

\* a threshold needs its min and its max, and min < max
ThresholdCheck(marker, threshold) ==
    IF ~({"min", "max"} \subseteq DOMAIN threshold)
    THEN << [path |-> <<"safety_thresholds", marker>>,
             message |-> "Missing min/max values"] >>
    ELSE IF threshold.min >= threshold.max
    THEN << [path |-> <<"safety_thresholds", marker>>,
             message |-> "Min value must be less than max value"] >>
    ELSE <<>>

RECURSIVE ThresholdLoop(_, _)
ThresholdLoop(safety_thresholds, i) ==
    IF i > Len(safety_thresholds) THEN <<>>
    ELSE ThresholdCheck(safety_thresholds[i].marker, safety_thresholds[i].threshold)
           \o ThresholdLoop(safety_thresholds, i + 1)

ThresholdErrors(requirements) ==
    IF "safety_thresholds" \in DOMAIN requirements
    THEN ThresholdLoop(requirements.safety_thresholds, 1)
    ELSE <<>>

validate_protocol_requirements(requirements) ==
    IF MissingFields(requirements) # <<>>
    THEN [raised |-> TRUE, message |-> "Missing required protocol fields",
          details |-> [fields |->
              [i \in 1..Len(MissingFields(requirements)) |->
                  [path |-> <<MissingFields(requirements)[i]>>,
                   message |-> "Missing required field"]]]]
    ELSE LET validation_errors == FrequencyErrors(requirements)
                                    \o DurationErrors(requirements)
                                    \o UnitErrors(requirements)
                                    \o ThresholdErrors(requirements)
         IN  IF validation_errors # <<>>
             THEN [raised |-> TRUE, message |-> "Invalid protocol requirements",
                   details |-> [fields |-> validation_errors]]
             ELSE [raised |-> FALSE, value |-> TRUE]

(***************************************************************************)
(* The operations of an AnalysisResult.  None of them reads or writes a    *)
(* field of the protocol.                                                  *)
(***************************************************************************)
ComputeStatistics(data_points) ==
    /\ ret = NoCall
    /\ UNCHANGED <<task_vars, enrollment_vars, data_vars>>
    /\ ret' = [op |-> "compute_statistics", data_points |-> data_points]
                @@ compute_statistics(data_points)
    /\ UNCHANGED <<safety_params, safety_violation_thresholds>>

DetectPatterns(data_points, confidence_threshold) ==
    /\ ret = NoCall
    /\ UNCHANGED <<task_vars, enrollment_vars, data_vars>>
    /\ ret' = [op |-> "detect_patterns", data_points |-> data_points,
               confidence_threshold |-> confidence_threshold]
                @@ detect_patterns(data_points, confidence_threshold)
    /\ UNCHANGED <<safety_params, safety_violation_thresholds>>

GenerateVisualizations(statistical_summary, patterns) ==
    /\ ret = NoCall
    /\ UNCHANGED <<task_vars, enrollment_vars, data_vars>>
    /\ ret' = [op |-> "generate_visualizations",
               statistical_summary |-> statistical_summary, patterns |-> patterns]
                @@ generate_visualizations(statistical_summary, patterns)
    /\ UNCHANGED <<safety_params, safety_violation_thresholds>>

\* the summaries of the lists of one data point: with no metric, one or
\* two, with and without time metrics and correlations
Summaries ==
    { compute_statistics(data_points).summary :
          data_points \in { l \in DataPointLists : Len(l) = 1 } }

\* the pattern lists of the lists of data points
PatternLists ==
    { detect_patterns(data_points, confidence_threshold).patterns :
          data_points \in DataPointLists,
          confidence_threshold \in ConfidenceThresholds }

NextAnalysis ==
    \/ /\ ret = NoCall
       /\ \E data_points \in DataPointLists : ComputeStatistics(data_points)
    \/ /\ ret = NoCall
       /\ \E data_points \in DataPointLists \cup {SeasonalData},
             confidence_threshold \in ConfidenceThresholds :
              DetectPatterns(data_points, confidence_threshold)
    \/ /\ ret = NoCall
       /\ \E statistical_summary \in Summaries, patterns \in PatternLists :
              GenerateVisualizations(statistical_summary, patterns)
    \/ Return

SpecAnalysis == Init /\ [][NextAnalysis]_vars

(***************************************************************************)
(* The validation of a safety parameters document                          *)
(***************************************************************************)
ValidateSafetyParameters(document) ==
    /\ ret = NoCall
    /\ UNCHANGED <<task_vars, enrollment_vars, data_vars>>
    /\ ret' = [op |-> "validate_safety_parameters", safety_params |-> document]
                @@ validate_safety_parameters(document)
    /\ UNCHANGED <<safety_params, safety_violation_thresholds>>

ValidateProtocolRequirements(requirements) ==
    /\ ret = NoCall
    /\ UNCHANGED <<task_vars, enrollment_vars, data_vars>>
    /\ ret' = [op |-> "validate_protocol_requirements", requirements |-> requirements]
                @@ validate_protocol_requirements(requirements)
    /\ UNCHANGED <<safety_params, safety_violation_thresholds>>

NextSchema ==
    \/ /\ ret = NoCall
       /\ \E document \in SafetyParameterDocs : ValidateSafetyParameters(document)
    \/ /\ ret = NoCall
       /\ \E requirements \in ProtocolRequirementDocs :
              ValidateProtocolRequirements(requirements)
    \/ Return

SpecSchema == Init /\ [][NextSchema]_vars

(***************************************************************************)
(* Claims about AnalysisResult.compute_statistics                          *)
(***************************************************************************)
Summarised == ret.op = "compute_statistics"

\* C11: called with zero data points compute_statistics raises and
\* returns no summary, padded with defaults or not.
C11_NoDataRaises ==
    (Summarised /\ Len(ret.data_points) = 0) =>
        ret.raised /\ "summary" \notin DOMAIN ret

C11_Witness ==
    /\ Summarised
    /\ ret.data_points = <<>>
    /\ ret.raised

\* C12: for a metric with exactly one observation the summary has the
\* mean and has neither a std_dev key nor a confidence_interval_95 key.
C12_SingleObservationMeanOnly ==
    (Summarised /\ Len(ret.data_points) = 1) =>
        /\ ~ret.raised
        /\ \A i \in 1..Len(ret.summary.metrics) :
               /\ "mean" \in DOMAIN ret.summary.metrics[i].stats
               /\ "std_dev" \notin DOMAIN ret.summary.metrics[i].stats
               /\ "confidence_interval_95" \notin DOMAIN ret.summary.metrics[i].stats

\* the timestamps the data points carry: their recorded_at
Timestamps(data_points) == { data_points[i].recorded_at : i \in 1..Len(data_points) }

\* C13: the summary of data points that carry timestamps has
\* time_metrics, with start_date, end_date and duration_days, the whole
\* days between the earliest and the latest timestamp; time_metrics is
\* left out only when no timestamp is supplied.
C13_TimeMetricsFromTimestamps ==
    (Summarised /\ ~ret.raised) =>
        LET times == Timestamps(ret.data_points)
        IN  IF times # {}
            THEN /\ "time_metrics" \in DOMAIN ret.summary
                 /\ DOMAIN ret.summary.time_metrics
                        = {"start_date", "end_date", "duration_days"}
                 /\ ret.summary.time_metrics.duration_days
                        = (MaxOf(times) - MinOf(times)) \div 24
            ELSE "time_metrics" \notin DOMAIN ret.summary

(***************************************************************************)
(* Claims about AnalysisResult.detect_patterns                             *)
(***************************************************************************)
PatternsDetected == ret.op = "detect_patterns"

PatternsOfType(patterns, type) == { i \in 1..Len(patterns) : patterns[i].type = type }

\* C14: every pattern returned by detect_patterns, of any type, has a
\* confidence within [0, 1] that is at least the confidence_threshold of
\* the call.
C14_ConfidenceAtLeastThreshold ==
    (PatternsDetected /\ ~ret.raised) =>
        \A i \in 1..Len(ret.patterns) :
            /\ ConfidenceGeq(ret.patterns[i].confidence, FracZero)
            /\ ConfidenceLeq(ret.patterns[i].confidence, FracOne)
            /\ ConfidenceGeq(ret.patterns[i].confidence, ret.confidence_threshold)

\* a call that found a seasonality whose confidence is under the
\* threshold and returned patterns of the other types
C14_Witness ==
    /\ PatternsDetected
    /\ ~ret.raised
    /\ PatternsOfType(ret.patterns, "trend") # {}
    /\ PatternsOfType(ret.patterns, "correlation") # {}
    /\ LET found == TimeSeriesPatterns(DataFrame(ret.data_points),
                                       ret.confidence_threshold)
       IN  \E i \in PatternsOfType(found, "seasonality") :
               ~ConfidenceGeq(found[i].confidence, ret.confidence_threshold)

\* the rows in the order of their timestamps where the data supplies
\* them, in the order of the list otherwise
InTimeOrder(data_points) ==
    LET df == DataFrame(data_points)
    IN  IF InColumns(df, "recorded_at") THEN SortByTime(df) ELSE df

\* C15: for every numeric metric detect_patterns reports one trend
\* pattern when the absolute correlation of the values with their index
\* is at least the threshold, increasing when the fitted slope is
\* positive and decreasing otherwise, and none below the threshold,
\* whether the data supplies timestamps or not.
C15_TrendPerMetric ==
    (PatternsDetected /\ ~ret.raised /\ Len(ret.data_points) > 0) =>
        LET df == InTimeOrder(ret.data_points)
            numeric_cols == NumericCols(df)
        IN  \A k \in 1..Len(numeric_cols) :
                LET y == Column(df, numeric_cols[k])
                    x == IndexRange(Len(y))
                    trends == { i \in PatternsOfType(ret.patterns, "trend") :
                                  ret.patterns[i].metric = numeric_cols[k] }
                IN  IF ConfidenceGeq(Abs(Pearson(x, y)), ret.confidence_threshold)
                    THEN /\ Cardinality(trends) = 1
                         /\ \A i \in trends :
                                ret.patterns[i].direction =
                                    IF CrossSum(x, y) > 0 THEN "increasing"
                                    ELSE "decreasing"
                    ELSE trends = {}

\* C16: with the default threshold, on 60 daily data points with a
\* weekly sinusoidal component, detect_patterns returns a seasonality
\* pattern whose period_days is within 1 of 7.
C16_WeeklySeasonalityFound ==
    ( /\ PatternsDetected
      /\ ret.data_points = SeasonalData
      /\ ret.confidence_threshold = CONFIDENCE_LEVELS.medium ) =>
        /\ ~ret.raised
        /\ \E i \in PatternsOfType(ret.patterns, "seasonality") :
               LET period_days == ret.patterns[i].details.period_days
               IN  /\ FracLeq(<<6, 1>>, period_days)
                   /\ FracLeq(period_days, <<8, 1>>)

\* C17 as stated: with zero observations detect_patterns fails and
\* returns no list.
C17_NoDataFails ==
    (PatternsDetected /\ Len(ret.data_points) = 0) => ret.raised

\* C17: with zero observations detect_patterns returns the empty list
\* of patterns and does not fail.
C17_NoDataNoPatterns ==
    (PatternsDetected /\ Len(ret.data_points) = 0) =>
        ~ret.raised /\ ret.patterns = <<>>

C17_Witness ==
    /\ PatternsDetected
    /\ ret.data_points = <<>>
    /\ ~ret.raised
    /\ ret.patterns = <<>>

(***************************************************************************)
(* Claims about AnalysisResult.generate_visualizations                     *)
(***************************************************************************)
Visualized == ret.op = "generate_visualizations"

MetricNames(statistical_summary) ==
    { statistical_summary.metrics[i].metric : i \in 1..Len(statistical_summary.metrics) }

Indicator(condition) == IF condition THEN 1 ELSE 0

\* C18: the list returned has one distribution per metric of the
\* summary; one time_series per metric, include_trend and
\* confidence_interval set, exactly when the summary has time metrics;
\* one heatmap exactly when it has a Pearson matrix; one trend_overlay
\* per trend pattern and one scatter per correlation pattern; nothing
\* for a seasonality pattern; and nothing else.
C18_VisualizationList ==
    Visualized =>
        LET summary == ret.statistical_summary
            plots == ret.visualizations
            of(type) == PatternsOfType(plots, type)
            timed == "time_metrics" \in DOMAIN summary
            correlated == /\ "correlations" \in DOMAIN summary
                          /\ "pearson" \in DOMAIN summary.correlations
        IN  /\ ~ret.raised
            /\ \A metric \in MetricNames(summary) :
                   /\ Cardinality({ i \in of("distribution") :
                                      plots[i].metric = metric }) = 1
                   /\ Cardinality({ i \in of("time_series") :
                                      plots[i].metric = metric }) = Indicator(timed)
            /\ Cardinality(of("distribution")) = Len(summary.metrics)
            /\ Cardinality(of("time_series")) = Len(summary.metrics) * Indicator(timed)
            /\ \A i \in of("time_series") :
                   /\ plots[i].config.include_trend = TRUE
                   /\ plots[i].config.confidence_interval = TRUE
            /\ Cardinality(of("heatmap")) = Indicator(correlated)
            /\ Cardinality(of("trend_overlay"))
                   = Cardinality(PatternsOfType(ret.patterns, "trend"))
            /\ Cardinality(of("scatter"))
                   = Cardinality(PatternsOfType(ret.patterns, "correlation"))
            /\ Len(plots) = Len(summary.metrics) * (1 + Indicator(timed))
                              + Indicator(correlated)
                              + Cardinality(PatternsOfType(ret.patterns, "trend"))
                              + Cardinality(PatternsOfType(ret.patterns, "correlation"))

\* a summary with two metrics, time metrics and correlations, drawn with
\* a trend, a seasonality and a correlation pattern
C18_Witness ==
    /\ Visualized
    /\ Len(ret.statistical_summary.metrics) = 2
    /\ {"time_metrics", "correlations"} \subseteq DOMAIN ret.statistical_summary
    /\ PatternsOfType(ret.patterns, "trend") # {}
    /\ PatternsOfType(ret.patterns, "seasonality") # {}
    /\ PatternsOfType(ret.patterns, "correlation") # {}
    /\ PatternsOfType(ret.visualizations, "heatmap") # {}

(***************************************************************************)
(* Claims about validate_safety_parameters                                 *)
(***************************************************************************)
Validated == ret.op = "validate_safety_parameters"

\* the alert range of a marker lies within its critical range
Nested(params) ==
    /\ params.alert_ranges.min >= params.critical_ranges.min
    /\ params.alert_ranges.max <= params.critical_ranges.max

\* C20: a well-formed document whose markers all have their alert range
\* within their critical range is accepted; one with a marker whose alert
\* range is below the critical minimum or above the critical maximum is
\* rejected with an error whose details name such a marker.
C20_AlertWithinCritical ==
    (Validated /\ ValidSafetyDocument(ret.safety_params)) =>
        LET markers == ret.safety_params.markers
            offending == { i \in 1..Len(markers) : ~Nested(markers[i].params) }
        IN  IF offending = {}
            THEN ~ret.raised /\ ret.value = TRUE
            ELSE /\ ret.raised
                 /\ \E i \in offending :
                        DOMAIN ret.details.fields = { markers[i].marker }

\* alert {min 5, max 90} against critical {min 10, max 100} was rejected
\* in the name of its marker
C20_Witness ==
    /\ Validated
    /\ ValidSafetyDocument(ret.safety_params)
    /\ Len(ret.safety_params.markers) = 1
    /\ ret.safety_params.markers[1].params.critical_ranges
           = [min |-> 10, max |-> 100, unit |-> "ng/mL"]
    /\ ret.safety_params.markers[1].params.alert_ranges
           = [min |-> 5, max |-> 90, unit |-> "ng/mL"]
    /\ ret.raised
    /\ DOMAIN ret.details.fields = {"vitamin_d"}

RequirementsValidated == ret.op = "validate_protocol_requirements"

\* C21: no threshold definition with min >= max is accepted at
\* configuration time: validate_safety_parameters accepts no document
\* with such a critical or alert range, and the requirements validator
\* accepts no such safety threshold.
C21_RejectsMinNotBelowMax ==
    /\ (Validated /\ ~ret.raised) =>
           \A i \in 1..Len(ret.safety_params.markers) :
               LET params == ret.safety_params.markers[i].params
               IN  /\ params.critical_ranges.min < params.critical_ranges.max
                   /\ params.alert_ranges.min < params.alert_ranges.max
    /\ (RequirementsValidated /\ ~ret.raised
           /\ "safety_thresholds" \in DOMAIN ret.requirements) =>
           \A i \in 1..Len(ret.requirements.safety_thresholds) :
               LET threshold == ret.requirements.safety_thresholds[i].threshold
               IN  threshold.min < threshold.max

(***************************************************************************)
(* The stored thresholds, the analysis task, the audit trails and the      *)
(* enrollments                                                             *)
(***************************************************************************)
\* C22: the thresholds that check_safety_violation evaluates against have
\* passed validation before the protocol was stored: no save leaves the
\* evaluator with a threshold that lacks its min or its max or has
\* min >= max.
C22_EvaluatorThresholdsValidated ==
    Checked =>
        \A i \in 1..Len(safety_violation_thresholds) :
            ThresholdCheck(safety_violation_thresholds[i].param,
                           safety_violation_thresholds[i].threshold) = <<>>

\* C26: when a value is both below the min and above the max of a
\* threshold, check_safety_violation records exactly one violation for the
\* metric, below_minimum with threshold = min.
C26_MinimumCheckWins ==
    Checked =>
        \A i \in 1..Len(safety_violation_thresholds) :
            LET param == safety_violation_thresholds[i].param
                threshold == safety_violation_thresholds[i].threshold
            IN  ( /\ param \in DOMAIN ret.data_point
                  /\ IsFlat(threshold)
                  /\ ret.data_point[param] < threshold["min"]
                  /\ ret.data_point[param] > threshold["max"] ) =>
                    /\ Cardinality(EntriesFor(ret.violation_details, param)) = 1
                    /\ \A j \in EntriesFor(ret.violation_details, param) :
                           /\ ret.violation_details[j].type = "below_minimum"
                           /\ ret.violation_details[j].threshold = threshold["min"]

\* the bin, counted from 0, of greatest magnitude among bins 1..n-1
DominantBin(magnitude_sq) == ArgMax(Tail(magnitude_sq)) + 1

\* C27: a seasonality pattern is that of the non-zero-frequency bin of
\* greatest magnitude: it is reported only when the frequency of that bin
\* is positive, its period_days is the inverse of that frequency and its
\* confidence is the share of that bin's magnitude in bins 1..n-1.
C27_PeakIsDominantBin ==
    (PatternsDetected /\ ~ret.raised /\ Len(ret.data_points) = MinSeasonalityPoints) =>
        \A i \in PatternsOfType(ret.patterns, "seasonality") :
            LET y == Column(InTimeOrder(ret.data_points), ret.patterns[i].metric)
                magnitude_sq == MagnitudeSq(y)
                frequency == FftFreq(Len(y))[DominantBin(magnitude_sq) + 1]
            IN  /\ frequency[1] > 0
                /\ ret.patterns[i].details.period_days = Frac(frequency[2], frequency[1])
                /\ ret.patterns[i].confidence.max_sq
                       = magnitude_sq[DominantBin(magnitude_sq) + 1]

\* C28: the correlation matrices of a summary hold no undefined
\* coefficient: the pair of a metric without variance has no entry.
C28_NoUndefinedCorrelation ==
    (Summarised /\ ~ret.raised /\ "correlations" \in DOMAIN ret.summary) =>
        \A method \in DOMAIN ret.summary.correlations :
            \A pair \in DOMAIN ret.summary.correlations[method] :
                ret.summary.correlations[method][pair] # NaN

(***************************************************************************)
(* The analyze_protocol_data task (tasks/analysis.py), run by a worker     *)
(* with the retries of AnalysisTask or called directly.                    *)
(*                                                                         *)
(* A row of the DataPoint table has its status, its recorded_at column and *)
(* its data dict; a row of the AnalysisResult table has its status and its *)
(* three JSON fields, and its id is its position in the table.             *)
(***************************************************************************)
max_retries == 3

TaskRow(status, day, value) ==
    [status |-> status, recorded_at |-> 24 * day,
     data |-> [k \in {"value", "unit", "recorded_at"} |->
                  CASE k = "value" -> value
                    [] k = "unit" -> "mg/dL"
                    [] k = "recorded_at" -> 24 * day]]

\* the DataPoint tables of the protocol that an attempt may find
AnalysisTables ==
    { <<>>,
      << TaskRow("pending", 0, 1) >>,
      << TaskRow("validated", 0, 1) >>,
      << TaskRow("validated", 0, 1), TaskRow("pending", 1, 2) >>,
      << TaskRow("validated", 1, 3), TaskRow("validated", 0, 1) >> }

\* the call of the task that an exception interrupts, if any: the three
\* methods can raise on data the model does not draw, as the tests make
\* compute_statistics do
Faults == {"none", "compute_statistics", "detect_patterns", "generate_visualizations"}

\* DataPoint.objects.filter(status='validated').order_by('recorded_at')
ValidatedDataPoints(table) ==
    LET validated == SelectSeq(table, LAMBDA row : row.status = "validated")
    IN  [k \in 1..Len(validated) |->
            LET row == validated[CHOOSE i \in 1..Len(validated) :
                           Cardinality({ j \in 1..Len(validated) :
                               validated[j].recorded_at < validated[i].recorded_at }) = k - 1]
            IN  [recorded_at |-> row.recorded_at, data |-> row.data]]

\* AnalysisResult.objects.create(protocol=protocol, status='processing')
NewAnalysisResult ==
    [status |-> "processing", statistical_summary |-> EmptyMap,
     patterns_detected |-> <<>>, visualizations |-> <<>>]

\* the ValidationException a method raises
FaultMessage(method) ==
    CASE method = "compute_statistics" -> "Statistical computation failed"
      [] method = "detect_patterns" -> "Pattern detection failed"
      [] method = "generate_visualizations" -> "Visualization generation failed"

\* the body of the inner try: the fields of analysis_result after it and
\* the exception that ended it, if any
RunAnalysis(analysis_result, data_points, fault) ==
    LET stats_summary == compute_statistics(data_points)
        patterns == detect_patterns(data_points, <<4, 5>>)
    IN  IF fault = "compute_statistics" \/ stats_summary.raised
        THEN [raised |-> TRUE, exc |-> FaultMessage("compute_statistics"),
              analysis_result |-> analysis_result]
        ELSE IF fault = "detect_patterns" \/ patterns.raised
        THEN [raised |-> TRUE, exc |-> FaultMessage("detect_patterns"),
              analysis_result |->
                  [analysis_result EXCEPT
                      !.statistical_summary = stats_summary.summary]]
        ELSE LET visualizations ==
                     generate_visualizations(stats_summary.summary, patterns.patterns)
             IN  IF fault = "generate_visualizations" \/ visualizations.raised
                 THEN [raised |-> TRUE, exc |-> FaultMessage("generate_visualizations"),
                       analysis_result |->
                           [analysis_result EXCEPT
                               !.statistical_summary = stats_summary.summary,
                               !.patterns_detected = patterns.patterns]]
                 ELSE [raised |-> FALSE,
                       analysis_result |->
                           [analysis_result EXCEPT
                               !.statistical_summary = stats_summary.summary,
                               !.patterns_detected = patterns.patterns,
                               !.visualizations = visualizations.visualizations]]

\* the lists of data points an attempt may analyse
AnalysedLists == { ValidatedDataPoints(table) : table \in AnalysisTables } \ { <<>> }

\* the inner try on the AnalysisResult the attempt has just created,
\* evaluated once for every list and every interruption
AnalysisRuns ==
    [data_points \in AnalysedLists, fault \in Faults |->
        RunAnalysis(NewAnalysisResult, data_points, fault)]

OnAnalysisErrorUnsaved(analysis_result) == analysis_result

\* except Exception: analysis_result.status = 'failed'; analysis_result.save()
OnAnalysisError(analysis_result) == [analysis_result EXCEPT !.status = "failed"]

\* analysis_result.status = 'completed'; analysis_result.save()
OnAnalysisSuccess(analysis_result) == [analysis_result EXCEPT !.status = "completed"]

RetriesExhaustedLate(retries) == retries > max_retries

\* Task.retry gives up when the retry it would schedule is beyond
\* max_retries
RetriesExhausted(retries) == retries + 1 > max_retries

\* analyze_protocol_data.delay(protocol_id), or the direct call of the
\* tests
Invoke(called_directly) ==
    /\ ret = NoCall
    /\ request.pc = "idle"
    /\ request' = [IdleRequest EXCEPT !.pc = "start", !.called_directly = called_directly]
    /\ UNCHANGED <<safety_params, safety_violation_thresholds, ret, analysis_results>>
    /\ UNCHANGED <<enrollment_vars, data_vars>>

\* an attempt up to the creation of its AnalysisResult: the protocol is
\* fetched, the validated data points are read
Retrieve(found, table) ==
    /\ request.pc = "start"
    /\ IF ~found
       THEN /\ request' = [request EXCEPT !.pc = "retry", !.exc = "Protocol.DoesNotExist"]
            /\ UNCHANGED analysis_results
       ELSE IF ValidatedDataPoints(table) = <<>>
       THEN /\ request' = [request EXCEPT
                              !.pc = "retry",
                              !.exc = "No validated data points found for analysis"]
            /\ UNCHANGED analysis_results
       ELSE /\ analysis_results' = Append(analysis_results, NewAnalysisResult)
            /\ request' = [request EXCEPT
                              !.pc = "analyze",
                              !.data_points = ValidatedDataPoints(table),
                              !.result = Len(analysis_results) + 1]
    /\ UNCHANGED <<safety_params, safety_violation_thresholds, ret>>
    /\ UNCHANGED <<enrollment_vars, data_vars>>

\* the rest of the attempt: the analysis, the save of its outcome, and
\* the return of the id or the exception on its way to the outer handler
Analyze(fault) ==
    /\ request.pc = "analyze"
    /\ LET run == AnalysisRuns[request.data_points, fault]
       IN  IF run.raised
           THEN /\ analysis_results' =
                       [analysis_results EXCEPT
                           ![request.result] = OnAnalysisError(run.analysis_result)]
                /\ request' = [request EXCEPT !.pc = "retry", !.exc = run.exc]
                /\ UNCHANGED ret
           ELSE /\ analysis_results' =
                       [analysis_results EXCEPT
                           ![request.result] = OnAnalysisSuccess(run.analysis_result)]
                /\ request' = [request EXCEPT !.pc = "done"]
                /\ ret' = [op |-> "analyze_protocol_data", state |-> "SUCCESS",
                           result |-> request.result]
    /\ UNCHANGED <<safety_params, safety_violation_thresholds>>
    /\ UNCHANGED <<enrollment_vars, data_vars>>

\* raise self.retry(exc=e): a direct call re-raises the exception; a
\* worker schedules the next attempt while retries are left and fails the
\* task with the exception otherwise
Retry ==
    /\ request.pc = "retry"
    /\ IF request.called_directly \/ RetriesExhausted(request.retries)
       THEN /\ request' = [request EXCEPT !.pc = "done"]
            /\ ret' = [op |-> "analyze_protocol_data", state |-> "FAILURE",
                       exc |-> request.exc]
       ELSE /\ request' = [request EXCEPT
                              !.pc = "start", !.retries = request.retries + 1,
                              !.data_points = <<>>, !.result = 0, !.exc = ""]
            /\ UNCHANGED ret
    /\ UNCHANGED <<safety_params, safety_violation_thresholds, analysis_results>>
    /\ UNCHANGED <<enrollment_vars, data_vars>>

NextTask ==
    \/ \E called_directly \in BOOLEAN : Invoke(called_directly)
    \/ \E found \in BOOLEAN, table \in AnalysisTables : Retrieve(found, table)
    \/ \E fault \in Faults : Analyze(fault)
    \/ Retry
    \/ Return

SpecTask == Init /\ [][NextTask]_vars

\* the worker runs the attempts it has been given
SpecTaskFair ==
    /\ SpecTask
    /\ WF_vars(\E found \in BOOLEAN, table \in AnalysisTables : Retrieve(found, table))
    /\ WF_vars(\E fault \in Faults : Analyze(fault))
    /\ WF_vars(Retry)

(***************************************************************************)
(* DataPoint.save (services/data/models.py) and the audit trail of the     *)
(* instance.  The instance also keeps, as history, the status it had at    *)
(* each successful save.                                                   *)
(***************************************************************************)
DATA_POINT_STATUS_CHOICES == {"pending", "validated", "rejected", "archived"}

\* uuid.uuid4(), the default of the id fields: the primary key of a new
\* instance, before its first save
Uuid(n) == [uuid |-> n]

\* DataPoint(protocol=..., status=status, ...)
NewDataPoint(status) ==
    [pk |-> Uuid(1), status |-> status, audit_trail |-> <<>>, saves |-> <<>>]

\* {'action': 'update' if self.pk else 'create', 'status': self.status};
\* the timestamp and the user id of the entry are left out
DataPointAuditEntry(instance) ==
    [action |-> IF instance.pk # None THEN "update" ELSE "create",
     status |-> instance.status]

\* DataPoint.save on the requirements of its protocol.  The protocol's
\* get_data_classification, which encrypt_sensitive_data calls, is defined
\* nowhere in the backend: the encryption either succeeds or fails with a
\* ValidationException.
data_point_save(instance, requirements, encrypted) ==
    IF ~validate_requirements(requirements)
    THEN [raised |-> TRUE, exc |-> "Invalid protocol requirements", instance |-> instance]
    ELSE IF ~encrypted
    THEN [raised |-> TRUE, exc |-> "Failed to encrypt sensitive data", instance |-> instance]
    ELSE [raised |-> FALSE,
          instance |-> [instance EXCEPT
                           !.audit_trail = Append(@, DataPointAuditEntry(instance)),
                           !.saves = Append(@, instance.status)]]

\* DataPoint.objects.create(...): a new instance and its first save; the
\* instance is kept when the save succeeded
CreateDataPoint(status, requirements, encrypted) ==
    /\ ret = NoCall
    /\ LET saved == data_point_save(NewDataPoint(status), requirements, encrypted)
       IN  /\ datapoint' = IF saved.raised THEN datapoint ELSE saved.instance
           /\ ret' = [op |-> "DataPoint.objects.create"] @@ saved
    /\ UNCHANGED <<safety_params, safety_violation_thresholds>>
    /\ UNCHANGED <<task_vars, enrollment_vars>>

\* data_point.status = status; data_point.save()
SaveDataPoint(status, requirements, encrypted) ==
    /\ ret = NoCall
    /\ datapoint # NoDataPoint
    /\ Len(datapoint.audit_trail) < MaxSaves
    /\ LET saved == data_point_save([datapoint EXCEPT !.status = status],
                                    requirements, encrypted)
       IN  /\ datapoint' = saved.instance
           /\ ret' = [op |-> "DataPoint.save"] @@ saved
    /\ UNCHANGED <<safety_params, safety_violation_thresholds>>
    /\ UNCHANGED <<task_vars, enrollment_vars>>

NextData ==
    \/ /\ ret = NoCall
       /\ \E status \in DATA_POINT_STATUS_CHOICES, requirements \in RequirementDocs,
             encrypted \in BOOLEAN :
              CreateDataPoint(status, requirements, encrypted)
    \/ /\ ret = NoCall
       /\ \E status \in DATA_POINT_STATUS_CHOICES, requirements \in RequirementDocs,
             encrypted \in BOOLEAN :
              SaveDataPoint(status, requirements, encrypted)
    \/ Return

SpecData == Init /\ [][NextData]_vars

(***************************************************************************)
(* Participation.save (services/protocol/models.py), and enrollment        *)
(* through ProtocolViewSet.enroll and ParticipationSerializer.             *)
(*                                                                         *)
(* A row of the Participation table has its primary key, its user, its     *)
(* status and its audit log; all the rows are of the one protocol.         *)
(***************************************************************************)
\* Participation(protocol=protocol, user=user)
NewParticipation(user) ==
    [pk |-> Uuid(user), user |-> user, status |-> "enrolled", audit_log |-> <<>>]

\* {'action': 'update' if self.pk else 'enroll', 'status': self.status}
ParticipationAuditEntry(instance) ==
    [action |-> IF instance.pk # None THEN "update" ELSE "enroll",
     status |-> instance.status]

\* Participation.save of a new instance: the capacity check of an
\* instance without primary key, the audit entry, and the insert, which
\* unique_together refuses for a user that has a row
participation_save(table, instance, limit) ==
    IF instance.pk = None /\ Len(table) >= limit
    THEN [raised |-> TRUE, exc |-> "Protocol has reached maximum participants",
          table |-> table]
    ELSE LET saved == [instance EXCEPT
                          !.audit_log = Append(@, ParticipationAuditEntry(instance))]
         IN  IF \E i \in 1..Len(table) : table[i].user = saved.user
             THEN [raised |-> TRUE, exc |-> "IntegrityError", table |-> table]
             ELSE [raised |-> FALSE, table |-> Append(table, saved), instance |-> saved]

\* Participation.objects.create(protocol=protocol, user=user)
CreateParticipation(user) ==
    /\ ret = NoCall
    /\ LET saved == participation_save(participations, NewParticipation(user),
                                       max_participants)
       IN  /\ participations' = saved.table
           /\ ret' = [op |-> "Participation.objects.create", user |-> user,
                      before |-> participations] @@ saved
    /\ UNCHANGED <<safety_params, safety_violation_thresholds>>
    /\ UNCHANGED <<task_vars, data_vars, max_participants, enrollments>>

\* protocol.max_participants = limit; protocol.save()
SetMaxParticipants(limit) ==
    /\ ret = NoCall
    /\ max_participants' = limit
    /\ ret' = [op |-> "save", raised |-> FALSE]
    /\ UNCHANGED <<safety_params, safety_violation_thresholds>>
    /\ UNCHANGED <<task_vars, data_vars, participations, enrollments>>

NextParticipation ==
    \/ /\ ret = NoCall
       /\ \E user \in Users : CreateParticipation(user)
    \/ /\ ret = NoCall
       /\ \E limit \in 0..Capacity : SetMaxParticipants(limit)
    \/ Return

SpecParticipation == Init /\ [][NextParticipation]_vars

\* protocol.participations.filter(status__in=['enrolled', 'active']).count()
CurrentCount(table) ==
    Len(SelectSeq(table, LAMBDA row : row.status \in {"enrolled", "active"}))

\* the checks of an enroll request before the insert: the status of the
\* protocol, and serializer.is_valid with the uniqueness of (protocol,
\* user) and the capacity of the protocol
enroll_validate(table, user, active, limit) ==
    IF ~active THEN "Protocol is not currently active"
    ELSE IF \E i \in 1..Len(table) : table[i].user = user
    THEN "The fields protocol, user must make a unique set."
    ELSE IF CurrentCount(table) >= limit
    THEN "Protocol has reached maximum participants"
    ELSE ""

\* the requests of the users run concurrently: each is at its own step
EnrollValidate(user, active) ==
    /\ enrollments[user] = "idle"
    /\ enrollments' =
           [enrollments EXCEPT
               ![user] = IF enroll_validate(participations, user, active,
                                            max_participants) = ""
                         THEN "validated" ELSE "rejected"]
    /\ UNCHANGED <<safety_params, safety_violation_thresholds, ret>>
    /\ UNCHANGED <<task_vars, data_vars, max_participants, participations>>

\* serializer.save(): Participation.objects.create(**validated_data)
EnrollSave(user) ==
    /\ enrollments[user] = "validated"
    /\ LET saved == participation_save(participations, NewParticipation(user),
                                       max_participants)
       IN  /\ participations' = saved.table
           /\ enrollments' =
                  [enrollments EXCEPT
                      ![user] = IF saved.raised THEN "rejected" ELSE "enrolled"]
    /\ UNCHANGED <<safety_params, safety_violation_thresholds, ret>>
    /\ UNCHANGED <<task_vars, data_vars, max_participants>>

\* the response, 201 or the error, reaches the user
EnrollRespond(user) ==
    /\ enrollments[user] \in {"enrolled", "rejected"}
    /\ enrollments' = [enrollments EXCEPT ![user] = "idle"]
    /\ UNCHANGED <<safety_params, safety_violation_thresholds, ret>>
    /\ UNCHANGED <<task_vars, data_vars, max_participants, participations>>

NextEnroll ==
    \/ \E user \in Users, active \in BOOLEAN : EnrollValidate(user, active)
    \/ \E user \in Users : EnrollSave(user)
    \/ \E user \in Users : EnrollRespond(user)

SpecEnroll == Init /\ [][NextEnroll]_vars

(***************************************************************************)
(* Claims about the analyze_protocol_data task                             *)
(***************************************************************************)
\* the attempt in progress has created its AnalysisResult and has ended
AttemptEnded == request.pc \in {"retry", "done"} /\ request.result # 0

MethodErrors == { FaultMessage(method) : method \in Faults \ {"none"} }

C25_AuditTrailPerSave ==
    datapoint # NoDataPoint =>
        /\ Len(datapoint.audit_trail) = Len(datapoint.saves)
        /\ \A i \in 1..Len(datapoint.audit_trail) :
               /\ datapoint.audit_trail[i].action = IF i = 1 THEN "create" ELSE "update"
               /\ datapoint.audit_trail[i].status = datapoint.saves[i]

Created == ret.op = "Participation.objects.create"

\* C24: creating a Participation for a user new to a protocol that has
\* max_participants participations raises and stores nothing; below the
\* limit it succeeds with status enrolled and one audit-log entry.
C24_CapacityEnforcedOnCreate ==
    (Created /\ \A i \in 1..Len(ret.before) : ret.before[i].user # ret.user) =>
        IF Len(ret.before) >= max_participants
        THEN ret.raised /\ participations = ret.before
        ELSE /\ ~ret.raised
             /\ Len(participations) = Len(ret.before) + 1
             /\ ret.instance.status = "enrolled"
             /\ Len(ret.instance.audit_log) = 1

\* C29: whatever the interleaving of the enroll requests, the protocol
\* never has more participations than max_participants.
C29_NeverOverCapacity == Len(participations) <= max_participants
====
